---------------------------- MODULE Spec2Model ----------------------------
(***************************************************************************)
(* FaceRecognizerVGG (deepface/recognizers/recognizer_vgg.py):             *)
(* batching of regions through the network (extract_features), candidate   *)
(* ranking against the database or the class probabilities (detect), and   *)
(* threshold-gated tagging of Face records (tag_faces).                    *)
(*                                                                         *)
(* Optional values (Python None / an attribute never written) are          *)
(* sequences of length 0 or 1.  Similarities are fixed-point numbers in    *)
(* units of 1/ScoreScale, or NaN; a float is [nan, v].                     *)
(***************************************************************************)
EXTENDS Integers, Sequences, FiniteSets

VARIABLES pc, db, score_th, topk, faces, rois, chunks, result, err, before, nimg

vars == <<pc, db, score_th, topk, faces, rois, chunks, result, err, before, nimg>>

-----------------------------------------------------------------------------
(* Bounds of the model *)

MaxFaces == 2
MaxRois == 5
MaxImages == 2

-----------------------------------------------------------------------------
(* Values *)

None == <<>>
Some(x) == <<x>>

ScoreScale == 100
Fl(x) == [nan |-> FALSE, v |-> x]
NaN == [nan |-> TRUE, v |-> 0]

\* Python/IEEE a < b on floats: false as soon as one side is NaN
Lt(a, b) == ~a.nan /\ ~b.nan /\ a.v < b.v
\* Python/IEEE a >= b
Ge(a, b) == ~a.nan /\ ~b.nan /\ a.v >= b.v

batch_size == 4

\* region shapes: the network's input height x width, and any other one
input_hw == "224x224"
OtherHw == "100x80"
PixVals == {0, 1, 2}
Region == [hw : {input_hw, OtherHw}, pix : PixVals]
\* the regions get_roi cuts out for the faces
FaceRegion ==
    {[hw |-> OtherHw, pix |-> 0], [hw |-> input_hw, pix |-> 1],
     [hw |-> input_hw, pix |-> 2]}

\* np.zeros((input_hw[0], input_hw[1], 3), dtype=np.uint8)
ZeroRegion == [hw |-> input_hw, pix |-> 0]

class_names == <<"c1", "c2", "c3">>
NumClasses == Len(class_names)

\* the network, a fixed stub: one (prob, fc7) row per image of the batch
ProbOf(p) == CASE p = 0 -> <<5, 10, 85>>
               [] p = 1 -> <<40, 40, 20>>
               [] OTHER -> <<80, 15, 5>>
EmbOf(p) == CASE p = 0 -> <<3, 4>>
              [] p = 1 -> <<1, 0>>
              [] OTHER -> <<0, 0>>
Infer(roi) == [prob |-> ProbOf(roi.pix), feat |-> EmbOf(roi.pix)]

\* persistent_sess.run([prob, fc7], feed_dict={input_node: roi_chunk})
SessRun(chunk) == [j \in 1..Len(chunk) |-> Infer(chunk[j])]


-----------------------------------------------------------------------------
(* extract_features *)

\* face_to_roi: one get_roi(npimg, face) per face, in order; the image is
\* given by the region it holds for each face
face_to_roi(npimg, fs) == [i \in 1..Len(fs) |-> npimg[i]]

\* cv2.resize(roi, input_hw, INTER_AREA): the region at the network's size
Resize(roi) == [roi EXCEPT !.hw = input_hw]

get_new_rois(rs) ==
    [i \in 1..Len(rs) |-> IF rs[i].hw # input_hw THEN Resize(rs[i]) ELSE rs[i]]

\* deepface.utils.common.grouper(iterable, n, fillvalue): consecutive chunks
\* of exactly n items, the last one filled up with fillvalue
grouper(s, n, fillvalue) ==
    [k \in 1..((Len(s) + n - 1) \div n) |->
        [j \in 1..n |-> IF (k - 1) * n + j <= Len(s)
                        THEN s[(k - 1) * n + j]
                        ELSE fillvalue]]

\* a short last chunk left as it is
ChunksRagged(new_rois) ==
    [k \in 1..((Len(new_rois) + batch_size - 1) \div batch_size) |->
        SubSeq(new_rois, (k - 1) * batch_size + 1,
               IF k * batch_size <= Len(new_rois) THEN k * batch_size
                                                   ELSE Len(new_rois))]

\* the chunks the loop of extract_features feeds to the session
Chunks(new_rois) == grouper(new_rois, batch_size, ZeroRegion)

RECURSIVE VStack(_)
\* np.vstack: the rows of every block, in order
VStack(blocks) ==
    IF blocks = <<>> THEN <<>> ELSE Head(blocks) \o VStack(Tail(blocks))

Take(s, n) == SubSeq(s, 1, IF n <= Len(s) THEN n ELSE Len(s))

\* np.vstack(...)[:len(rois)]
Truncate(rows, n) == Take(rows, n)

\* extract_features(npimg, rois, faces): [err, chunks, probs, feats]
ExtractFeatures(npimg, roisArg, facesArg) ==
    LET rs == IF roisArg = <<>> /\ facesArg # <<>>
              THEN face_to_roi(npimg, facesArg) ELSE roisArg
    IN  IF rs = <<>>
        THEN \* new_rois was never bound: the for statement raises
             [err |-> "UnboundLocalError", chunks |-> <<>>,
              probs |-> <<>>, feats |-> <<>>]
        ELSE LET cs == Chunks(get_new_rois(rs))
                 outs == [k \in 1..Len(cs) |-> SessRun(cs[k])]
                 rows == VStack(outs)
                 pr == [i \in 1..Len(rows) |-> rows[i].prob]
                 ft == [i \in 1..Len(rows) |-> rows[i].feat]
             IN  [err |-> "none", chunks |-> cs,
                  probs |-> Truncate(pr, Len(rs)),
                  feats |-> Truncate(ft, Len(rs))]

-----------------------------------------------------------------------------
(* detect: cosine similarity against the database, or class ranking *)

Dot(a, b) == a[1] * b[1] + a[2] * b[2]
SqNorm(a) == Dot(a, a)
\* np.linalg.norm(a, 2), exact on the vectors of the model
Norm(a) == CHOOSE n \in 0..SqNorm(a) : n * n = SqNorm(a)

\* np.dot(feat / norm(feat), db_feature / norm(db_feature)): a zero norm
\* makes every component of the quotient 0/0 = nan, and so the product
Similarity(feat, db_feature) ==
    IF Norm(feat) = 0 \/ Norm(db_feature) = 0
    THEN NaN
    ELSE Fl((ScoreScale * Dot(feat, db_feature))
                \div (Norm(feat) * Norm(db_feature)))

Reverse(s) == [i \in 1..Len(s) |-> s[Len(s) + 1 - i]]

\* the comparison list.sort makes on the keys x[1]
KeyLt(a, b) == Lt(a.score, b.score)

RECURSIVE RunLen(_, _, _)
\* count_run: length of the run s[1..i] extended as far as it goes
RunLen(s, i, desc) ==
    IF i = Len(s) THEN i
    ELSE IF KeyLt(s[i + 1], s[i]) = desc THEN RunLen(s, i + 1, desc) ELSE i

RECURSIVE Locate(_, _, _, _)
\* binarysort's search of pivot's place in the sorted s[l+1..r] (0-based l, r)
Locate(s, pivot, l, r) ==
    LET p == l + ((r - l) \div 2)
        l2 == IF KeyLt(pivot, s[p + 1]) THEN l ELSE p + 1
        r2 == IF KeyLt(pivot, s[p + 1]) THEN p ELSE r
    IN  IF l2 < r2 THEN Locate(s, pivot, l2, r2) ELSE l2

RECURSIVE BinarySort(_, _)
\* binarysort: s[1..start] is sorted, insert the rest one by one
BinarySort(s, start) ==
    IF start >= Len(s) THEN s
    ELSE LET pivot == s[start + 1]
             l == Locate(s, pivot, 0, start)
         IN  BinarySort(SubSeq(s, 1, l) \o <<pivot>> \o SubSeq(s, l + 1, start)
                            \o SubSeq(s, start + 2, Len(s)),
                        start + 1)

\* the ascending sort of a short list: first run, then binary insertion
SortAsc(s) ==
    IF Len(s) < 2 THEN s
    ELSE LET desc == KeyLt(s[2], s[1])
             n == RunLen(s, 2, desc)
             t == IF desc THEN Reverse(SubSeq(s, 1, n)) \o SubSeq(s, n + 1, Len(s))
                          ELSE s
         IN  BinarySort(t, n)

\* ascending sort, then reversed: equal scores end up in reversed order
SortDescUnstable(s) == Reverse(SortAsc(s))

\* scores.sort(key=lambda x: x[1], reverse=True): the list is reversed,
\* sorted ascending and reversed again
SortDesc(s) == Reverse(SortAsc(Reverse(s)))

\* the scores of one query against every database entry, sorted
DbCandidates(feat, items) ==
    SortDesc([k \in 1..Len(items) |->
                [name |-> items[k].name,
                 score |-> Similarity(feat, items[k].feat)]])

Perms(n) == {p \in [1..n -> 1..n] : \A i, j \in 1..n : p[i] = p[j] => i = j}
ClassOrders == Perms(NumClasses)

\* prop.argsort(): any order of the indexes that is ascending in prop
\* (the order of equal values is not specified)
ArgSorts(prop) ==
    {p \in ClassOrders :
        \A i \in 1..(Len(prop) - 1) : prop[p[i]] <= prop[p[i + 1]]}

\* order[:topk]: the first topk instead of the last
LowestK(order, k) == Reverse(Take(order, k))

\* order[-topk:][::-1]
TopK(order, k) ==
    Reverse(SubSeq(order,
                   IF k >= Len(order) THEN 1 ELSE Len(order) - k + 1,
                   Len(order)))

ClassCandidates(prop, order, k) ==
    LET top == TopK(order, k)
    IN  [j \in 1..Len(top) |->
            [name |-> class_names[top[j]], score |-> Fl(prop[top[j]])]]

\* the rest of detect once extract_features has returned x, with database d
\* (None or Some(items)); orders holds the outcome of argsort for every row
DetectFrom(x, d, k, orders) ==
    IF x.err # "none"
    THEN [err |-> x.err, chunks |-> x.chunks, res |-> None]
    ELSE [err |-> "none", chunks |-> x.chunks,
          res |-> Some([output |-> x.probs, feature |-> x.feats,
                        name |-> [i \in 1..Len(x.feats) |->
                            IF d = None
                            THEN ClassCandidates(x.probs[i], orders[i], k)
                            ELSE DbCandidates(x.feats[i], d[1])]])]

\* detect(npimg, rois, faces)
Detect(npimg, roisArg, facesArg, d, k, orders) ==
    DetectFrom(ExtractFeatures(npimg, roisArg, facesArg), d, k, orders)

-----------------------------------------------------------------------------
(* tag_faces *)

\* the score added to the one the face already carries
TagOneAccumulate(face, feat, cands, th) ==
    LET f1 == [face EXCEPT !.face_feature = Some(feat)]
    IN  IF cands = <<>> THEN [face |-> f1, raised |-> TRUE]
        ELSE IF Lt(cands[1].score, th) THEN [face |-> f1, raised |-> FALSE]
        ELSE [face |-> [f1 EXCEPT
                 !.face_name = Some(cands[1].name),
                 !.face_score =
                     IF face.face_score = None \/ cands[1].score.nan
                     THEN Some(cands[1].score)
                     ELSE Some(Fl(face.face_score[1].v + cands[1].score.v))],
              raised |-> FALSE]

\* name and score reset when the face is not identified
TagOneReset(face, feat, cands, th) ==
    LET f1 == [face EXCEPT !.face_feature = Some(feat)]
    IN  IF cands = <<>> THEN [face |-> f1, raised |-> TRUE]
        ELSE IF Lt(cands[1].score, th)
        THEN [face |-> [f1 EXCEPT !.face_name = None, !.face_score = None],
              raised |-> FALSE]
        ELSE [face |-> [f1 EXCEPT !.face_name = Some(cands[1].name),
                                  !.face_score = Some(cands[1].score)],
              raised |-> FALSE]

\* the body of the loop of tag_faces for one face: the feature is attached,
\* result['name'][face_idx][0] raises IndexError on an empty list, a score
\* below the threshold skips the face, otherwise name and score are written
TagOne(face, feat, cands, th) ==
    LET f1 == [face EXCEPT !.face_feature = Some(feat)]
    IN  IF cands = <<>> THEN [face |-> f1, raised |-> TRUE]
        ELSE IF Lt(cands[1].score, th) THEN [face |-> f1, raised |-> FALSE]
        ELSE [face |-> [f1 EXCEPT !.face_name = Some(cands[1].name),
                                  !.face_score = Some(cands[1].score)],
              raised |-> FALSE]

RECURSIVE TagFrom(_, _, _, _)
\* the loop over enumerate(faces), from index i on; an exception ends it
TagFrom(fs, res, th, i) ==
    IF i > Len(fs) THEN [faces |-> fs, err |-> "none"]
    ELSE IF i > Len(res.feature) THEN [faces |-> fs, err |-> "IndexError"]
    ELSE LET t == TagOne(fs[i], res.feature[i], res.name[i], th)
             fs2 == [fs EXCEPT ![i] = t.face]
         IN  IF t.raised THEN [faces |-> fs2, err |-> "IndexError"]
                         ELSE TagFrom(fs2, res, th, i + 1)

tag_faces(fs, res, th) == TagFrom(fs, res, th, 1)

-----------------------------------------------------------------------------
(* Inputs *)

DbEmb == {<<0, 0>>, <<1, 0>>, <<0, 1>>}

DbNames == <<"bob", "alice", "carol">>

\* a pickled dict: entries in insertion order, keys unique
DbItems ==
    UNION {{[n \in 1..len |-> [name |-> DbNames[n], feat |-> fs[n]]] :
                fs \in [1..len -> DbEmb]} : len \in 0..Len(DbNames)}

\* DeepFaceConfs: recognizer.score_th and recognizer.topk
Thresholds == {Fl(80)}
TopKs == {2, 4}

\* a Face as the detector hands it over: nothing attached yet
NewFace == [face_feature |-> None, face_name |-> None, face_score |-> None]

SeqsUpTo(S, n) == UNION {[1..k -> S] : k \in 0..n}

RECURSIVE Product(_)
\* the sequences that take their i-th item from the i-th set
Product(sets) ==
    IF sets = <<>> THEN {<<>>}
    ELSE {<<h>> \o t : h \in Head(sets), t \in Product(Tail(sets))}


-----------------------------------------------------------------------------
(* The recognizer in use: construction, detection, tagging *)

Init ==
    /\ pc = "new"
    /\ db = None
    /\ score_th \in Thresholds
    /\ topk = None
    /\ faces = <<>>
    /\ rois = <<>>
    /\ chunks = <<>>
    /\ result = None
    /\ err = "none"
    /\ before = <<>>
    /\ nimg = 0

\* __init__: the weight file must exist, the database file must open, and
\* self.db is whatever the pickle holds
Construct ==
    /\ pc = "new"
    /\ \/ /\ pc' = "failed"
          /\ err' = "FileNotFoundError"
          /\ db' = db
       \/ /\ pc' = "failed"
          /\ err' = "OSError"
          /\ db' = None
       \/ /\ \E content \in {None} \cup {Some(d) : d \in DbItems} :
                db' = content
          /\ pc' = "ready"
          /\ err' = "none"
    /\ UNCHANGED <<score_th, topk, faces, rois, chunks, result, before, nimg>>

\* the detector's output: new Face records, nothing attached yet
Detector ==
    /\ pc = "ready"
    /\ \E n \in 0..MaxFaces : faces' = [i \in 1..n |-> NewFace]
    /\ pc' = "faces"
    /\ UNCHANGED <<db, score_th, topk, rois, chunks, result, err, before, nimg>>

\* what detect leaves behind
Detected(r) ==
    /\ result' = r.res
    /\ chunks' = r.chunks
    /\ err' = r.err
    /\ pc' = IF r.err = "none" THEN "detected" ELSE "faces"
    /\ nimg' = nimg + 1
    /\ before' = <<>>
    /\ UNCHANGED <<db, score_th, faces, rois>>

\* result = detect(npimg, faces=faces)
DetectCall ==
    /\ pc = "faces"
    /\ nimg < MaxImages
    /\ \E npimg \in [1..Len(faces) -> FaceRegion] :
       \E x \in {ExtractFeatures(npimg, None, faces)} :
          \/ /\ db = None
             /\ \E k \in TopKs :
                \E orders \in Product([i \in 1..Len(x.probs) |-> ArgSorts(x.probs[i])]) :
                \E r \in {DetectFrom(x, db, k, orders)} :
                   /\ Detected(r)
                   /\ topk' = IF r.err = "none" THEN Some(k) ELSE topk
          \/ /\ db # None
             /\ \E r \in {DetectFrom(x, db, 0, <<>>)} :
                   Detected(r)
             /\ topk' = topk

\* tag_faces(faces, result), and once more with the same arguments
TagCall ==
    /\ pc \in {"detected", "tagged", "retagged"}
    /\ LET t == tag_faces(faces, result[1], score_th)
       IN  /\ faces' = t.faces
           /\ err' = t.err
    /\ before' = faces
    /\ pc' = IF pc = "detected" THEN "tagged" ELSE "retagged"
    /\ UNCHANGED <<db, score_th, topk, rois, chunks, result, nimg>>

\* the request is over: the caller drops the result and keeps the Face
\* records, which it uses again for the next image
NextRequest ==
    /\ pc \in {"tagged", "retagged"}
    /\ nimg < MaxImages
    /\ pc' = "faces"
    /\ result' = None
    /\ chunks' = <<>>
    /\ before' = <<>>
    /\ err' = "none"
    /\ UNCHANGED <<db, score_th, topk, faces, rois, nimg>>

Next == Construct \/ Detector \/ DetectCall \/ TagCall \/ NextRequest

Spec == Init /\ [][Next]_vars

-----------------------------------------------------------------------------
(* extract_features on its own, for any list of regions *)

InitBatch ==
    /\ pc = "ready"
    /\ db = None
    /\ score_th = Fl(80)
    /\ topk = None
    /\ faces = <<>>
    /\ rois \in SeqsUpTo(Region, MaxRois)
    /\ chunks = <<>>
    /\ result = None
    /\ err = "none"
    /\ before = <<>>
    /\ nimg = 0

\* probs, feats = extract_features(npimg, rois=rois)
ExtractCall ==
    /\ pc = "ready"
    /\ \E x \in {ExtractFeatures(<<>>, rois, faces)} :
          /\ chunks' = x.chunks
          /\ err' = x.err
          /\ result' = IF x.err = "none"
                       THEN Some([output |-> x.probs, feature |-> x.feats,
                                  name |-> <<>>])
                       ELSE None
          /\ pc' = IF x.err = "none" THEN "extracted" ELSE "raised"
    /\ UNCHANGED <<db, score_th, topk, faces, rois, before, nimg>>

NextBatch == ExtractCall

SpecBatch == InitBatch /\ [][NextBatch]_vars


-----------------------------------------------------------------------------
(* Properties *)

Res == result[1]
Min(a, b) == IF a <= b THEN a ELSE b

\* C1 (SpecBatch): once extract_features has been called on N regions it
\* has returned N probability rows and N feature rows, and row i is the
\* network's output for region i, whatever N is.
BatchRoundTrip ==
    pc \in {"extracted", "raised"} =>
        /\ err = "none"
        /\ Len(Res.output) = Len(rois)
        /\ Len(Res.feature) = Len(rois)
        /\ \A i \in 1..Len(rois) :
              /\ Res.output[i] = Infer([rois[i] EXCEPT !.hw = input_hw]).prob
              /\ Res.feature[i] = Infer([rois[i] EXCEPT !.hw = input_hw]).feat

\* the same for a list that is not empty, which is where the code gets
\* as far as batching
BatchRoundTripNonEmpty ==
    (pc \in {"extracted", "raised"} /\ rois # <<>>) =>
        /\ err = "none"
        /\ Len(Res.output) = Len(rois)
        /\ Len(Res.feature) = Len(rois)
        /\ \A i \in 1..Len(rois) :
              /\ Res.output[i] = Infer([rois[i] EXCEPT !.hw = input_hw]).prob
              /\ Res.feature[i] = Infer([rois[i] EXCEPT !.hw = input_hw]).feat

\* C9 (SpecBatch): every chunk fed to the session holds exactly batch_size
\* regions; the chunks are the regions in input order, batch_size at a time,
\* and what follows the last region in the last chunk is the zero region of
\* the network's input size.
BatchSizeConsistency ==
    /\ \A c \in 1..Len(chunks) :
          /\ Len(chunks[c]) = batch_size
          /\ \A j \in 1..Len(chunks[c]) :
                LET idx == (c - 1) * batch_size + j
                IN  chunks[c][j] =
                        IF idx <= Len(rois)
                        THEN [rois[idx] EXCEPT !.hw = input_hw]
                        ELSE [hw |-> input_hw, pix |-> 0]
    /\ pc = "extracted" =>
          /\ Len(chunks) * batch_size >= Len(rois)
          /\ (Len(chunks) - 1) * batch_size < Len(rois)

BatchPaddedWitness ==
    /\ pc = "extracted"
    /\ Len(rois) = batch_size + 1
    /\ Len(chunks) = 2
    /\ chunks[2][2] = [hw |-> input_hw, pix |-> 0]
    /\ \E i \in 1..Len(rois) : rois[i].hw # input_hw

\* the top entry of face i's candidate list
TopOf(i) == Res.name[i][1]

\* C2 (Spec): after tag_faces, a face whose top candidate has score S carries
\* that candidate's name and score if S >= score_th, and the name and score
\* it had before the call otherwise.
ThresholdGate ==
    (pc = "tagged" /\ err = "none") =>
        \A i \in 1..Len(faces) :
            IF Ge(TopOf(i).score, score_th)
            THEN /\ faces[i].face_name = Some(TopOf(i).name)
                 /\ faces[i].face_score = Some(TopOf(i).score)
            ELSE /\ faces[i].face_name = before[i].face_name
                 /\ faces[i].face_score = before[i].face_score

\* C3 (Spec): with a database, every candidate list holds one (name,
\* similarity) pair per database entry and its scores do not increase: no
\* entry has a lower score than one that stands after it.
CandidateOrdering ==
    (db # None /\ result # None) =>
        \A i \in 1..Len(Res.name) :
            LET c == Res.name[i]
                items == db[1]
            IN  /\ Len(c) = Len(items)
                /\ \A n \in 1..Len(items) : \E j \in 1..Len(c) :
                      /\ c[j].name = items[n].name
                      /\ c[j].score = Similarity(Res.feature[i], items[n].feat)
                /\ \A j1, j2 \in 1..Len(c) :
                      j1 < j2 => ~Lt(c[j1].score, c[j2].score)

\* C4 (Spec): with a database, detect returns no result in which a query
\* embedding or a database embedding compared with it has norm zero (the
\* comparison raises DegenerateEmbeddingError instead), and no candidate
\* list holds a NaN score.
ZeroNormGuard ==
    (db # None /\ result # None) =>
        \A i \in 1..Len(Res.name) :
            /\ \A n \in 1..Len(db[1]) :
                  /\ SqNorm(Res.feature[i]) # 0
                  /\ SqNorm(db[1][n].feat) # 0
            /\ \A j \in 1..Len(Res.name[i]) : ~Res.name[i][j].score.nan

\* C5 (Spec): tag_faces called a second time with the same faces, result
\* and threshold leaves every face as the first call left it.
TaggingIdempotent == pc = "retagged" => faces = before

TaggedTwiceWitness ==
    /\ pc = "retagged"
    /\ err = "none"
    /\ \E i \in 1..Len(faces) : faces[i].face_name # None
    /\ \E i \in 1..Len(faces) : faces[i].face_name = None

\* C6 (Spec): a face whose top candidate scores below the threshold gets
\* its feature set to the embedding of its row, and keeps the name and the
\* score it had before the call.
BelowThresholdFrame ==
    pc \in {"tagged", "retagged"} =>
        \A i \in 1..Len(faces) :
            (Res.name[i] # <<>> /\ Lt(TopOf(i).score, score_th)) =>
                /\ faces[i].face_feature = Some(Res.feature[i])
                /\ faces[i].face_name = before[i].face_name
                /\ faces[i].face_score = before[i].face_score

ReusedFaceBelowWitness ==
    /\ pc = "tagged"
    /\ err = "none"
    /\ nimg = 2
    /\ \E i \in 1..Len(faces) :
          /\ Res.name[i] # <<>>
          /\ Lt(TopOf(i).score, score_th)
          /\ before[i].face_name # None
          /\ before[i].face_feature # Some(Res.feature[i])
          /\ faces[i].face_name = before[i].face_name
          /\ faces[i].face_feature = Some(Res.feature[i])

\* C7 (Spec): without a database every candidate list holds
\* min(topk, number of classes) pairs (class name, probability) of distinct
\* classes, in descending order of probability, and no class left out has a
\* higher probability than one that is in.
FallbackTopK ==
    (db = None /\ result # None /\ topk # None) =>
        \A i \in 1..Len(Res.name) :
            LET c == Res.name[i]
                p == Res.output[i]
            IN  /\ Len(c) = Min(topk[1], NumClasses)
                /\ \A j \in 1..Len(c) : \E t \in 1..NumClasses :
                      c[j] = [name |-> class_names[t], score |-> Fl(p[t])]
                /\ \A j1, j2 \in 1..Len(c) : c[j1].name = c[j2].name => j1 = j2
                /\ \A j \in 1..(Len(c) - 1) : Ge(c[j].score, c[j + 1].score)
                /\ \A t \in 1..NumClasses :
                      (\A j \in 1..Len(c) : c[j].name # class_names[t]) =>
                          \A j \in 1..Len(c) : p[t] <= c[j].score.v

FallbackWitness ==
    /\ db = None
    /\ pc = "detected"
    /\ topk # None
    /\ topk[1] > NumClasses
    /\ Len(Res.name) = MaxFaces
    /\ Len(Res.name[1]) = NumClasses
    /\ Res.name[1][1].score = Res.name[1][2].score

\* C8 (Spec): tag_faces always completes, whatever the candidate lists, and
\* has then attached its feature to every face.
NoErrorForNoMatch ==
    pc \in {"tagged", "retagged"} =>
        /\ err = "none"
        /\ \A i \in 1..Len(faces) : faces[i].face_feature = Some(Res.feature[i])

\* the place of a name in the iteration order of the database
DbIndex(nm) == CHOOSE n \in 1..Len(db[1]) : db[1][n].name = nm

=============================================================================
